---- MODULE Spec2Model ----
(***************************************************************************)
(* Model of the quiz contract of src/src/lib.rs (QuizContract): the quiz   *)
(* table, the published-id set, the per-account solved sets and retry      *)
(* maps, and the handlers submit_answer, create_quiz, publish_quiz,        *)
(* get_quiz_status and get_published_quizzes, run one call at a time by    *)
(* the host, which discards the writes of a call that panics.              *)
(***************************************************************************)
EXTENDS Integers, Sequences, FiniteSets

\* ------------------------------------------------------------------ bounds

\* create_quiz is explored until this many quizzes exist (ids 0..MaxQuizzes-1).
MaxQuizzes == 2

\* submit_answer is explored while the ledger holds at most this many accepted
\* submissions (retries used and quizzes solved), over all accounts and quizzes.
MaxSubmissions == 3

\* The largest max_prize_amount of the quizzes whose prizes SpecPrize explores.
MaxPrize == 13

\* ------------------------------------------------------- program constants

\* unwrap_or(3): the retries of a pair that has no stored counter.
DefaultRetries == 3

\* The 4 of max_prize_amount / (4 - retries_left).
PrizeDivisorBase == 4

\* --------------------------------------------------------------- the inputs

\* The accounts that call the contract; the tests construct it with bob.near
\* as owner and call it as bob.near and as alice.near.
Accounts == {"bob.near", "alice.near"}

OwnerAccount == "bob.near"

\* The quiz ids given to the handlers: those create_quiz can return within the
\* bound; each is the id of no quiz until create_quiz has returned it.
QuizIds == 0 .. (MaxQuizzes - 1)

Answers == {"Paris", "Berlin"}

Questions == {"What is the capital of France"}

\* The max_prize_amount strings given to create_quiz, as their characters;
\* "abc" is no number.
PrizeStrings == {<<"1", "2">>, <<"a", "b", "c">>}

\* format!("{:x}", Sha256::digest(answer.as_bytes())): the lowercase hex digest.
Sha256Hex(answer) ==
    CASE answer = "Paris"  -> "5dd272b4f316b776a7b8e3d0894b37e1e42be3d5d3b204b8a5836cc50597a6b1"
      [] answer = "Berlin" -> "dad114b6ed7342bac65c79575f6c7ff761ec26b52c1f5f7a9110532973d05df2"
      [] answer = "Madrid" -> "e9c722cbefc2f055ae60b4e2cbe73a2d99537eab0c37f3bc2dd9e0854278b970"
      [] OTHER             -> "e3b0c44298fc1c149afbf4c8996fb92427ae41e4649b934ca495991b7852b855"

\* The correct_hash strings given to create_quiz.
CorrectHashes == {Sha256Hex("Paris")}

\* char::to_digit(10): the value of a decimal digit, -1 for another character.
ToDigit(c) ==
    CASE c = "0" -> 0 [] c = "1" -> 1 [] c = "2" -> 2 [] c = "3" -> 3 [] c = "4" -> 4
      [] c = "5" -> 5 [] c = "6" -> 6 [] c = "7" -> 7 [] c = "8" -> 8 [] c = "9" -> 9
      [] OTHER -> -1

\* The value of a sequence of decimal digits, most significant first.
RECURSIVE DigitsValue(_)
DigitsValue(s) ==
    IF s = <<>>
    THEN 0
    ELSE DigitsValue(SubSeq(s, 1, Len(s) - 1)) * 10 + ToDigit(s[Len(s)])

\* max_prize_amount.parse::<u128>(): <<n>> for Ok(n), <<>> for Err (the empty
\* string, or a character that is no decimal digit after an optional "+").
ParseU128(s) ==
    LET digits == IF s # <<>> /\ s[1] = "+" THEN Tail(s) ELSE s
    IN  IF digits = <<>> \/ \E i \in 1 .. Len(digits) : ToDigit(digits[i]) < 0
        THEN <<>>
        ELSE <<DigitsValue(digits)>>

\* The decimal digit of a value 0..9.
FromDigit(d) ==
    CASE d = 0 -> "0" [] d = 1 -> "1" [] d = 2 -> "2" [] d = 3 -> "3" [] d = 4 -> "4"
      [] d = 5 -> "5" [] d = 6 -> "6" [] d = 7 -> "7" [] d = 8 -> "8" [] d = 9 -> "9"

\* u128::to_string: the decimal digits of n, most significant first.
RECURSIVE to_string(_)
to_string(n) ==
    IF n < 10
    THEN <<FromDigit(n)>>
    ELSE Append(to_string(n \div 10), FromDigit(n % 10))

\* ------------------------------------------------------------------- state

VARIABLES
    owner_id,            \* AccountId
    quizzes,             \* LookupMap<QuizId, Quiz>: a function on the stored ids
    published_quiz_ids,  \* UnorderedSet<QuizId>: its elements
    solved_quizzes,      \* LookupMap<AccountId, UnorderedSet<QuizId>>
    retries_left,        \* LookupMap<AccountId, LookupMap<QuizId, usize>>
    current_quiz_id,     \* QuizId
    transfers,           \* the transfers the host has scheduled, per (account, quiz)
    last                 \* the last call: its method, caller, arguments and
                         \* outcome, and the contract as it was before the call

vars == <<owner_id, quizzes, published_quiz_ids, solved_quizzes, retries_left,
          current_quiz_id, transfers, last>>

\* The contract object a handler runs on (&self / &mut self).
Self ==
    [owner_id           |-> owner_id,
     quizzes            |-> quizzes,
     published_quiz_ids |-> published_quiz_ids,
     solved_quizzes     |-> solved_quizzes,
     retries_left       |-> retries_left,
     current_quiz_id    |-> current_quiz_id]

\* ------------------------------------------------------------- collections

\* LookupMap::new: no key stored.
EmptyMap == [k \in {} |-> 0]

\* LookupMap::insert(key, value).
MapInsert(m, k, v) == [x \in (DOMAIN m) \cup {k} |-> IF x = k THEN v ELSE m[x]]

\* UnorderedSet::new: no element.
EmptySet == {}

\* UnorderedSet::contains.
SetContains(s, e) == e \in s

\* UnorderedSet::insert: adds the element unless it is already there.
SetInsert(s, e) == IF SetContains(s, e) THEN s ELSE s \cup {e}

\* ---------------------------------------------------------------- outcomes

NoPanic == ""

\* A handler that ran to its return: the contract as it left it, the value it
\* returned and the promises it created.
Return(self, ret, promises) ==
    [self |-> self, panic |-> NoPanic, ret |-> ret, promises |-> promises]

\* A handler that panicked with msg: the contract as written up to that point.
Panic(self, msg) ==
    [self |-> self, panic |-> msg, ret |-> <<>>, promises |-> <<>>]

\* ---------------------------------------------------------------- handlers

PanicNotOwner == "This method can only be called by owner"
PanicNoSuchQuiz == "No such quiz found"
PanicUnpublished == "Cannot submit an answer to unpublished quiz"
PanicAlreadySolved == "This quiz is already solved by you"
PanicOutOfTries == "You can no longer solve this quiz. You are out of tries."
PanicDuplicate == "Quiz with the same quiz_id already exists"
PanicParse == "called Result::unwrap() on an Err value: ParseIntError"
PanicCannotLoad == "Cannot load quiz"
\* The host's error when the contract's balance does not cover a transfer.
PanicBalanceExceeded == "Exceeded the account balance."

\* check_owner without its assertion: every caller passes.
check_owner_anyone(self, predecessor_account_id) == TRUE

\* check_owner: whether assert_eq!(owner_id, predecessor_account_id) passes.
check_owner(self, predecessor_account_id) ==
    self.owner_id = predecessor_account_id

\* self.solved_quizzes.get(&account_id).unwrap_or_else(new empty set).
solved_quizzes_set(self, account_id) ==
    IF account_id \in DOMAIN self.solved_quizzes
    THEN self.solved_quizzes[account_id]
    ELSE EmptySet

\* self.retries_left.get(&account_id).unwrap_or_else(new empty map).
retries_left_map(self, account_id) ==
    IF account_id \in DOMAIN self.retries_left
    THEN self.retries_left[account_id]
    ELSE EmptyMap

\* retries_left_map.get(&quiz_id).unwrap_or(3).
retries_left_of(self, account_id, quiz_id) ==
    IF quiz_id \in DOMAIN retries_left_map(self, account_id)
    THEN retries_left_map(self, account_id)[quiz_id]
    ELSE DefaultRetries

\* The prize divided by the retries left instead of by 4 minus them.
prize_amount_by_retries(max_prize_amount, retries) ==
    max_prize_amount \div retries

\* quiz.max_prize_amount / (4 - retries_left) as u128.
prize_amount(max_prize_amount, retries) ==
    max_prize_amount \div (PrizeDivisorBase - retries)

\* The branch of a correct answer without self.solved_quizzes.insert: the prize
\* is transferred and the solved set of the caller is not stored.
correct_answer_unstored(self, account_id, quiz_id, quiz, retries, balance_covers) ==
    LET amount == quiz.max_prize_amount \div (PrizeDivisorBase - retries)
    IN  IF ~balance_covers
        THEN Panic(self, PanicBalanceExceeded)
        ELSE Return(self,
                    <<"Your answer is correct. You've got ", amount, " yoctoNEAR">>,
                    <<[receiver_id |-> account_id, amount |-> amount]>>)

\* The branch of a correct answer with the failure of the transfer ignored: the
\* call returns, the quiz marked solved, with no transfer scheduled.
correct_answer_unpaid(self, account_id, quiz_id, quiz, retries, balance_covers) ==
    LET set    == SetInsert(solved_quizzes_set(self, account_id), quiz_id)
        self1  == [self EXCEPT !.solved_quizzes = MapInsert(@, account_id, set)]
        amount == quiz.max_prize_amount \div (PrizeDivisorBase - retries)
    IN  Return(self1,
               <<"Your answer is correct. You've got ", amount, " yoctoNEAR">>,
               IF balance_covers
               THEN <<[receiver_id |-> account_id, amount |-> amount]>>
               ELSE <<>>)

\* The branch of a correct answer taking a retry as the branch of an incorrect
\* answer does: the counter of the pair is stored, one less.
correct_answer_decrementing(self, account_id, quiz_id, quiz, retries, balance_covers) ==
    LET set    == SetInsert(solved_quizzes_set(self, account_id), quiz_id)
        map    == MapInsert(retries_left_map(self, account_id), quiz_id, retries - 1)
        self1  == [self EXCEPT !.solved_quizzes = MapInsert(@, account_id, set),
                               !.retries_left = MapInsert(@, account_id, map)]
        amount == quiz.max_prize_amount \div (PrizeDivisorBase - retries)
    IN  IF ~balance_covers
        THEN Panic(self1, PanicBalanceExceeded)
        ELSE Return(self1,
                    <<"Your answer is correct. You've got ", amount, " yoctoNEAR">>,
                    <<[receiver_id |-> account_id, amount |-> amount]>>)

\* The branch of a correct answer with the prize shared: the amount is divided
\* by the number of accounts that have solved the quiz, the caller included.
correct_answer_shared(self, account_id, quiz_id, quiz, retries, balance_covers) ==
    LET set     == SetInsert(solved_quizzes_set(self, account_id), quiz_id)
        self1   == [self EXCEPT !.solved_quizzes = MapInsert(@, account_id, set)]
        solvers == {a \in DOMAIN self1.solved_quizzes : quiz_id \in self1.solved_quizzes[a]}
        amount  == (quiz.max_prize_amount \div (PrizeDivisorBase - retries)) \div Cardinality(solvers)
    IN  IF ~balance_covers
        THEN Panic(self1, PanicBalanceExceeded)
        ELSE Return(self1,
                    <<"Your answer is correct. You've got ", amount, " yoctoNEAR">>,
                    <<[receiver_id |-> account_id, amount |-> amount]>>)

\* The branch of a correct answer: the quiz is inserted into the caller's
\* solved set, which is stored, and the transfer of the prize is handed to the
\* host, which panics the call when the balance does not cover it
\* (balance_covers = FALSE).
correct_answer(self, account_id, quiz_id, quiz, retries, balance_covers) ==
    LET set    == SetInsert(solved_quizzes_set(self, account_id), quiz_id)
        self1  == [self EXCEPT !.solved_quizzes = MapInsert(@, account_id, set)]
        amount == prize_amount(quiz.max_prize_amount, retries)
    IN  IF ~balance_covers
        THEN Panic(self1, PanicBalanceExceeded)
        ELSE Return(self1,
                    <<"Your answer is correct. You've got ", amount, " yoctoNEAR">>,
                    <<[receiver_id |-> account_id, amount |-> amount]>>)

\* The branch of an incorrect answer with the counter going up by one.
incorrect_answer_incrementing(self, account_id, quiz_id, retries) ==
    LET new   == retries + 1
        map   == MapInsert(retries_left_map(self, account_id), quiz_id, new)
        self1 == [self EXCEPT !.retries_left = MapInsert(@, account_id, map)]
    IN  Return(self1,
               <<"The answer is not right. You have ", new, " retries left">>,
               <<>>)

\* The branch of an incorrect answer with the counter set to one less than the
\* larger of the retries left and 3.
incorrect_answer_from_three(self, account_id, quiz_id, retries) ==
    LET new   == (IF retries > DefaultRetries THEN retries ELSE DefaultRetries) - 1
        map   == MapInsert(retries_left_map(self, account_id), quiz_id, new)
        self1 == [self EXCEPT !.retries_left = MapInsert(@, account_id, map)]
    IN  Return(self1,
               <<"The answer is not right. You have ", new, " retries left">>,
               <<>>)

\* The branch of an incorrect answer with the message formatted from the
\* retries left of before the decrement.
incorrect_answer_stale_message(self, account_id, quiz_id, retries) ==
    LET new   == retries - 1
        map   == MapInsert(retries_left_map(self, account_id), quiz_id, new)
        self1 == [self EXCEPT !.retries_left = MapInsert(@, account_id, map)]
    IN  IF retries = 0
        THEN Return(self1, <<"The answer is not right, you are out of tries">>, <<>>)
        ELSE Return(self1,
                    <<"The answer is not right. You have ", retries, " retries left">>,
                    <<>>)

\* The branch of an incorrect answer with the retry maps of all accounts under
\* one storage prefix (no hash of the account in it): the counter written for
\* the caller is the one every stored retry map reads for the quiz.
incorrect_answer_unprefixed(self, account_id, quiz_id, retries) ==
    LET new    == retries - 1
        stored == (DOMAIN self.retries_left) \cup {account_id}
        self1  == [self EXCEPT !.retries_left =
                      [a \in stored |-> MapInsert(retries_left_map(self, a), quiz_id, new)]]
    IN  IF new = 0
        THEN Return(self1, <<"The answer is not right, you are out of tries">>, <<>>)
        ELSE Return(self1,
                    <<"The answer is not right. You have ", new, " retries left">>,
                    <<>>)

\* The branch of an incorrect answer: the counter goes down by one and is
\* stored in the caller's retry map.
incorrect_answer(self, account_id, quiz_id, retries) ==
    LET new   == retries - 1
        map   == MapInsert(retries_left_map(self, account_id), quiz_id, new)
        self1 == [self EXCEPT !.retries_left = MapInsert(@, account_id, map)]
    IN  IF new = 0
        THEN Return(self1, <<"The answer is not right, you are out of tries">>, <<>>)
        ELSE Return(self1,
                    <<"The answer is not right. You have ", new, " retries left">>,
                    <<>>)

\* The check of the solved set left out.
already_solved_unchecked(self, account_id, quiz_id) == FALSE

\* The check of the solved set.
already_solved(self, account_id, quiz_id) ==
    SetContains(solved_quizzes_set(self, account_id), quiz_id)

\* The check of the retry counter left out.
out_of_tries_unchecked(self, account_id, quiz_id) == FALSE

\* The check of the retry counter comparing with < instead of ==.
out_of_tries_below_zero(self, account_id, quiz_id) ==
    retries_left_of(self, account_id, quiz_id) < 0

\* The check of the retry counter.
out_of_tries(self, account_id, quiz_id) ==
    retries_left_of(self, account_id, quiz_id) = 0

\* The check of the quiz status left out.
is_published_unchecked(quiz) == TRUE

\* The check of the quiz status.
is_published(quiz) == quiz.status = "Published"

submit_answer(self, predecessor_account_id, quiz_id, answer, balance_covers) ==
    IF quiz_id \notin DOMAIN self.quizzes
    THEN Panic(self, PanicNoSuchQuiz)
    ELSE
    LET quiz       == self.quizzes[quiz_id]
        account_id == predecessor_account_id
        retries    == retries_left_of(self, account_id, quiz_id)
    IN  IF ~is_published(quiz)
        THEN Panic(self, PanicUnpublished)
        ELSE IF already_solved(self, account_id, quiz_id)
        THEN Panic(self, PanicAlreadySolved)
        ELSE IF out_of_tries(self, account_id, quiz_id)
        THEN Panic(self, PanicOutOfTries)
        ELSE IF Sha256Hex(answer) = quiz.correct_hash
        THEN correct_answer(self, account_id, quiz_id, quiz, retries, balance_covers)
        ELSE incorrect_answer(self, account_id, quiz_id, retries)

\* create_quiz without self.current_quiz_id += 1.
create_quiz_reusing(self, predecessor_account_id, question, correct_hash, max_prize_amount, publish) ==
    IF self.owner_id # predecessor_account_id
    THEN Panic(self, PanicNotOwner)
    ELSE IF ParseU128(max_prize_amount) = <<>>
    THEN Panic(self, PanicParse)
    ELSE
    LET quiz_id == self.current_quiz_id
        quiz    == [status           |-> IF publish THEN "Published" ELSE "Unpublished",
                    question         |-> question,
                    correct_hash     |-> correct_hash,
                    max_prize_amount |-> ParseU128(max_prize_amount)[1]]
        self1   == [self EXCEPT !.quizzes = MapInsert(@, quiz_id, quiz)]
        self2   == IF publish
                   THEN [self1 EXCEPT !.published_quiz_ids = SetInsert(@, quiz_id)]
                   ELSE self1
    IN  IF quiz_id \in DOMAIN self.quizzes
        THEN Panic(self1, PanicDuplicate)
        ELSE Return(self2, <<quiz_id>>, <<>>)

create_quiz(self, predecessor_account_id, question, correct_hash, max_prize_amount, publish) ==
    IF ~check_owner(self, predecessor_account_id)
    THEN Panic(self, PanicNotOwner)
    ELSE IF ParseU128(max_prize_amount) = <<>>
    THEN Panic(self, PanicParse)
    ELSE
    LET status   == IF publish THEN "Published" ELSE "Unpublished"
        quiz_id  == self.current_quiz_id
        existing == quiz_id \in DOMAIN self.quizzes
        quiz     == [status           |-> status,
                     question         |-> question,
                     correct_hash     |-> correct_hash,
                     max_prize_amount |-> ParseU128(max_prize_amount)[1]]
        self1    == [self EXCEPT !.quizzes = MapInsert(@, quiz_id, quiz)]
        self2    == IF publish
                    THEN [self1 EXCEPT !.published_quiz_ids = SetInsert(@, quiz_id)]
                    ELSE self1
        self3    == [self2 EXCEPT !.current_quiz_id = @ + 1]
    IN  IF existing
        THEN Panic(self1, PanicDuplicate)
        ELSE Return(self3, <<quiz_id>>, <<>>)

\* get_quiz_status unwrapping the record: an id that is not in the quiz table
\* panics.
get_quiz_status_expect(self, quiz_id) ==
    IF quiz_id \in DOMAIN self.quizzes
    THEN Return(self, <<self.quizzes[quiz_id].status>>, <<>>)
    ELSE Panic(self, PanicNoSuchQuiz)

\* Option<QuizStatus>: <<status>> for Some(status), <<>> for None.
get_quiz_status(self, quiz_id) ==
    IF quiz_id \in DOMAIN self.quizzes
    THEN Return(self, <<self.quizzes[quiz_id].status>>, <<>>)
    ELSE Return(self, <<>>, <<>>)

\* publish_quiz without the insert into the published set.
publish_quiz_unindexed(self, predecessor_account_id, quiz_id) ==
    IF self.owner_id # predecessor_account_id
    THEN Panic(self, PanicNotOwner)
    ELSE IF quiz_id \notin DOMAIN self.quizzes
    THEN Panic(self, PanicNoSuchQuiz)
    ELSE Return([self EXCEPT !.quizzes[quiz_id].status = "Published"], <<>>, <<>>)

\* publish_quiz asserting that the quiz is not yet published.
publish_quiz_once(self, predecessor_account_id, quiz_id) ==
    IF self.owner_id # predecessor_account_id
    THEN Panic(self, PanicNotOwner)
    ELSE IF quiz_id \notin DOMAIN self.quizzes
    THEN Panic(self, PanicNoSuchQuiz)
    ELSE IF self.quizzes[quiz_id].status = "Published"
    THEN Panic(self, "Quiz is already published")
    ELSE Return([self EXCEPT !.quizzes[quiz_id].status = "Published",
                             !.published_quiz_ids = SetInsert(@, quiz_id)],
                <<>>, <<>>)

\* publish_quiz switching the status: a Published quiz becomes Unpublished and
\* leaves the published set's record as it is.
publish_quiz_toggle(self, predecessor_account_id, quiz_id) ==
    IF self.owner_id # predecessor_account_id
    THEN Panic(self, PanicNotOwner)
    ELSE IF quiz_id \notin DOMAIN self.quizzes
    THEN Panic(self, PanicNoSuchQuiz)
    ELSE IF self.quizzes[quiz_id].status = "Published"
    THEN Return([self EXCEPT !.quizzes[quiz_id].status = "Unpublished"], <<>>, <<>>)
    ELSE Return([self EXCEPT !.quizzes[quiz_id].status = "Published",
                             !.published_quiz_ids = SetInsert(@, quiz_id)],
                <<>>, <<>>)

publish_quiz(self, predecessor_account_id, quiz_id) ==
    IF ~check_owner(self, predecessor_account_id)
    THEN Panic(self, PanicNotOwner)
    ELSE IF quiz_id \notin DOMAIN self.quizzes
    THEN Panic(self, PanicNoSuchQuiz)
    ELSE
    LET quiz  == self.quizzes[quiz_id]
        quiz1 == IF quiz.status = "Unpublished"
                 THEN [quiz EXCEPT !.status = "Published"]
                 ELSE quiz
        self1 == IF quiz.status = "Unpublished"
                 THEN [self EXCEPT !.published_quiz_ids = SetInsert(@, quiz_id)]
                 ELSE self
        self2 == [self1 EXCEPT !.quizzes = MapInsert(@, quiz_id, quiz1)]
    IN  Return(self2, <<>>, <<>>)

\* The JsonQuiz of every id of the published set (the order of the returned
\* vector, that of the set's iteration, is left out); the call panics when one
\* of the ids is not in the quiz table.
get_published_quizzes(self) ==
    LET quiz_ids == self.published_quiz_ids
    IN  IF \E quiz_id \in quiz_ids : quiz_id \notin DOMAIN self.quizzes
        THEN Panic(self, PanicCannotLoad)
        ELSE Return(self,
                    {[quiz_id      |-> quiz_id,
                      question     |-> self.quizzes[quiz_id].question,
                      prize_amount |-> to_string(self.quizzes[quiz_id].max_prize_amount)] :
                        quiz_id \in quiz_ids},
                    <<>>)

\* ------------------------------------------------------------------ ledger

\* Whether quiz_id is in the solved set stored for account_id, as the tests
\* read it: solved_quizzes.get(&account_id) ... contains(&quiz_id).
HasSolved(self, account_id, quiz_id) ==
    /\ account_id \in DOMAIN self.solved_quizzes
    /\ quiz_id \in self.solved_quizzes[account_id]

\* The retries left of a pair: the counter stored for it, as the tests read it
\* (retries_left.get(&account_id) ... get(&quiz_id)), and 3 when none is stored.
RetriesLeft(self, account_id, quiz_id) ==
    IF /\ account_id \in DOMAIN self.retries_left
       /\ quiz_id \in DOMAIN self.retries_left[account_id]
    THEN self.retries_left[account_id][quiz_id]
    ELSE DefaultRetries

\* ----------------------------------------------------------------- the host

\* A host that keeps the writes of a call that panicked.
RollbackNever(before, r) == r.self

\* The contract state the host stores after a call on the contract before whose
\* handler ended as r: what the handler wrote when it returned, and before when
\* it panicked, whatever it had written by then.
Rollback(before, r) == IF r.panic = NoPanic THEN r.self ELSE before

\* The contract state a call leaves behind: what the handler wrote when it
\* returned, and the state before the call when it panicked (the host discards
\* every write of a failed call).
Committed(r) == Rollback(Self, r)

\* The promises of a call that returned are scheduled; a call that panicked
\* schedules none.
Scheduled(r) == IF r.panic = NoPanic THEN r.promises ELSE <<>>

\* The transfers scheduled so far with those of the call added; a transfer is
\* filed under its receiver and the quiz of the submit_answer that created it.
Paid(r, quiz_id) ==
    LET ps == Scheduled(r)
    IN  IF ps = <<>>
        THEN transfers
        ELSE [transfers EXCEPT ![ps[1].receiver_id][quiz_id] = Append(@, ps[1].amount)]

\* One call of method op by caller with args, whose handler ended as r.
Execute(op, caller, args, r, quiz_id) ==
    /\ \E c \in {Committed(r)} :
        /\ owner_id' = c.owner_id
        /\ quizzes' = c.quizzes
        /\ published_quiz_ids' = c.published_quiz_ids
        /\ solved_quizzes' = c.solved_quizzes
        /\ retries_left' = c.retries_left
        /\ current_quiz_id' = c.current_quiz_id
    /\ transfers' = Paid(r, quiz_id)
    /\ last' = [op       |-> op,
                caller   |-> caller,
                args     |-> args,
                before   |-> Self,
                panic    |-> r.panic,
                ret      |-> r.ret,
                promises |-> Scheduled(r)]

\* No caller: a view call has no predecessor account.
NoCaller == ""

\* ------------------------------------------------------------------ actions

\* QuizContract::new(owner_id): the contract it constructs.
new(owner) ==
    [owner_id           |-> owner,
     quizzes            |-> EmptyMap,
     published_quiz_ids |-> EmptySet,
     solved_quizzes     |-> EmptyMap,
     retries_left       |-> EmptyMap,
     current_quiz_id    |-> 0]

\* No transfer scheduled.
NoTransfers == [a \in Accounts |-> [q \in QuizIds |-> <<>>]]

\* The state after construction.
Init ==
    /\ owner_id = new(OwnerAccount).owner_id
    /\ quizzes = new(OwnerAccount).quizzes
    /\ published_quiz_ids = new(OwnerAccount).published_quiz_ids
    /\ solved_quizzes = new(OwnerAccount).solved_quizzes
    /\ retries_left = new(OwnerAccount).retries_left
    /\ current_quiz_id = new(OwnerAccount).current_quiz_id
    /\ transfers = NoTransfers
    /\ last = [op       |-> "new",
               caller   |-> OwnerAccount,
               args     |-> [owner_id |-> OwnerAccount],
               before   |-> new(OwnerAccount),
               panic    |-> NoPanic,
               ret      |-> <<>>,
               promises |-> <<>>]

\* The accepted submissions a ledger holds: one for every retry used and one for
\* every quiz solved, over all accounts and quizzes.
Accepted(self) ==
    Cardinality({<<a, q, i>> \in Accounts \X QuizIds \X (1 .. DefaultRetries) :
                    i > RetriesLeft(self, a, q)})
    + Cardinality({<<a, q>> \in Accounts \X QuizIds : HasSolved(self, a, q)})

SubmitAnswer ==
    \E caller \in Accounts, quiz_id \in QuizIds, answer \in Answers,
       balance_covers \in BOOLEAN :
        \E r \in {submit_answer(Self, caller, quiz_id, answer, balance_covers)} :
            /\ r.panic # NoPanic \/ Accepted(r.self) <= MaxSubmissions
            /\ Execute("submit_answer", caller,
                       [quiz_id |-> quiz_id, answer |-> answer], r, quiz_id)

CreateQuiz ==
    \E caller \in Accounts, question \in Questions, correct_hash \in CorrectHashes,
       max_prize_amount \in PrizeStrings, publish \in BOOLEAN :
        \E r \in {create_quiz(Self, caller, question, correct_hash,
                             max_prize_amount, publish)} :
            /\ r.panic # NoPanic \/ current_quiz_id < MaxQuizzes
            /\ Execute("create_quiz", caller,
                       [question |-> question, correct_hash |-> correct_hash,
                        max_prize_amount |-> max_prize_amount, publish |-> publish],
                       r, current_quiz_id)

PublishQuiz ==
    \E caller \in Accounts, quiz_id \in QuizIds :
        \E r \in {publish_quiz(Self, caller, quiz_id)} :
            Execute("publish_quiz", caller, [quiz_id |-> quiz_id], r, quiz_id)

GetQuizStatus ==
    \E quiz_id \in QuizIds :
        \E r \in {get_quiz_status(Self, quiz_id)} :
            Execute("get_quiz_status", NoCaller, [quiz_id |-> quiz_id], r, quiz_id)

GetPublishedQuizzes ==
    \E r \in {get_published_quizzes(Self)} :
        Execute("get_published_quizzes", NoCaller, [none |-> TRUE], r, 0)

Next ==
    \/ SubmitAnswer
    \/ CreateQuiz
    \/ PublishQuiz
    \/ GetQuizStatus
    \/ GetPublishedQuizzes

Spec == Init /\ [][Next]_vars

\* The state after construction and a first call, by the owner, of create_quiz
\* with publish = true and, as max_prize_amount, the decimal string of a
\* number of 0 .. MaxPrize.
InitPrize ==
    \E n \in 0 .. MaxPrize, question \in Questions, correct_hash \in CorrectHashes :
        \E r \in {create_quiz(new(OwnerAccount), OwnerAccount, question, correct_hash, to_string(n), TRUE)} :
            /\ owner_id = r.self.owner_id
            /\ quizzes = r.self.quizzes
            /\ published_quiz_ids = r.self.published_quiz_ids
            /\ solved_quizzes = r.self.solved_quizzes
            /\ retries_left = r.self.retries_left
            /\ current_quiz_id = r.self.current_quiz_id
            /\ transfers = NoTransfers
            /\ last = [op       |-> "create_quiz",
                       caller   |-> OwnerAccount,
                       args     |-> [question |-> question, correct_hash |-> correct_hash,
                                     max_prize_amount |-> to_string(n), publish |-> TRUE],
                       before   |-> new(OwnerAccount),
                       panic    |-> r.panic,
                       ret      |-> r.ret,
                       promises |-> <<>>]

\* The calls on the quiz of InitPrize: answers submitted, and the published
\* quizzes listed.
NextPrize ==
    \/ SubmitAnswer
    \/ GetPublishedQuizzes

\* The submissions to a published quiz of every prize of 0 .. MaxPrize.
SpecPrize == InitPrize /\ [][NextPrize]_vars

\* -------------------------------------------------------------- properties

\* The last call was a submit_answer.
LastIsSubmit == last.op = "submit_answer"

\* The last call left the six fields of the contract as they were before it.
StateUnchanged == Self = last.before

\* The last call scheduled no transfer.
NoTransfer == last.promises = <<>>

\* The answer of the last submit_answer hashes to the stored correct hash.
LastAnswerCorrect ==
    /\ last.args.quiz_id \in DOMAIN last.before.quizzes
    /\ Sha256Hex(last.args.answer) = last.before.quizzes[last.args.quiz_id].correct_hash

\* C1: once a quiz is in an account's solved set it stays there, and every
\* submit_answer of that account on that quiz, whatever the answer, panics
\* with "This quiz is already solved by you", schedules no transfer and leaves
\* the solved sets, the retry counters and the rest of the state unchanged.
C1_SolvedRejectsSubmissions ==
    /\ \A a \in Accounts, q \in QuizIds :
          HasSolved(last.before, a, q) => HasSolved(Self, a, q)
    /\ (LastIsSubmit /\ HasSolved(last.before, last.caller, last.args.quiz_id))
          => /\ last.panic = PanicAlreadySolved
             /\ NoTransfer
             /\ StateUnchanged

\* A solved pair was submitted the correct answer again and was rejected.
C1_Witness ==
    /\ LastIsSubmit
    /\ HasSolved(last.before, last.caller, last.args.quiz_id)
    /\ LastAnswerCorrect
    /\ last.panic = PanicAlreadySolved

\* C2: once the retries left of an unsolved pair are 0 they stay 0 and the pair
\* stays unsolved, and every submit_answer of that account on that quiz, the
\* correct answer included, panics with "You can no longer solve this quiz. You
\* are out of tries.", schedules no transfer and leaves the state unchanged.
C2_ExhaustedRejectsSubmissions ==
    /\ \A a \in Accounts, q \in QuizIds :
          (RetriesLeft(last.before, a, q) = 0 /\ ~HasSolved(last.before, a, q))
              => (RetriesLeft(Self, a, q) = 0 /\ ~HasSolved(Self, a, q))
    /\ (/\ LastIsSubmit
        /\ RetriesLeft(last.before, last.caller, last.args.quiz_id) = 0
        /\ ~HasSolved(last.before, last.caller, last.args.quiz_id))
          => /\ last.panic = PanicOutOfTries
             /\ NoTransfer
             /\ StateUnchanged

\* An exhausted pair was submitted the correct answer and was rejected.
C2_Witness ==
    /\ LastIsSubmit
    /\ RetriesLeft(last.before, last.caller, last.args.quiz_id) = 0
    /\ LastAnswerCorrect
    /\ last.panic = PanicOutOfTries
    /\ ~HasSolved(Self, last.caller, last.args.quiz_id)

\* The case of C3: the correct answer to a published quiz by an account that
\* has not solved it and has r retries left, the transfer being one the host
\* schedules (C5 covers the one it refuses).
CorrectSubmission(r) ==
    /\ LastIsSubmit
    /\ LastAnswerCorrect
    /\ last.before.quizzes[last.args.quiz_id].status = "Published"
    /\ ~HasSolved(last.before, last.caller, last.args.quiz_id)
    /\ RetriesLeft(last.before, last.caller, last.args.quiz_id) = r
    /\ last.panic # PanicBalanceExceeded

\* C3: the correct answer to a published quiz by an account that has not solved
\* it and has r in {1,2,3} retries left marks the quiz solved for the caller and
\* schedules one transfer, to the caller, of floor(max_prize_amount / (4 - r)):
\* the whole prize for r = 3, floor(max/2) for r = 2, floor(max/3) for r = 1.
C3_PrizeByRetries ==
    \A r \in 1 .. 3 :
        CorrectSubmission(r)
            => LET max == last.before.quizzes[last.args.quiz_id].max_prize_amount
                   amount == CASE r = 3 -> max
                               [] r = 2 -> max \div 2
                               [] r = 1 -> max \div 3
               IN  /\ last.panic = NoPanic
                   /\ HasSolved(Self, last.caller, last.args.quiz_id)
                   /\ last.promises = <<[receiver_id |-> last.caller, amount |-> amount]>>
                   /\ amount * (PrizeDivisorBase - r) <= max
                   /\ max < (amount + 1) * (PrizeDivisorBase - r)
                   /\ max = 12 => amount = (CASE r = 3 -> 12 [] r = 2 -> 6 [] r = 1 -> 4)

\* A quiz of prize 7 was solved with one retry left, for a transfer of 2.
C3_Witness ==
    /\ CorrectSubmission(1)
    /\ last.before.quizzes[last.args.quiz_id].max_prize_amount = 7
    /\ last.promises = <<[receiver_id |-> last.caller, amount |-> 2]>>

\* C4: for every account and quiz at most one transfer has been scheduled to
\* the account for the quiz, and exactly one if and only if the quiz is in the
\* account's solved set.
C4_PaidOncePerSolved ==
    \A a \in Accounts, q \in QuizIds :
        /\ Len(transfers[a][q]) <= 1
        /\ Len(transfers[a][q]) = 1 <=> HasSolved(Self, a, q)

\* An account that was paid for a quiz submitted its correct answer again: it
\* is still paid once.
C4_Witness ==
    /\ LastIsSubmit
    /\ LastAnswerCorrect
    /\ HasSolved(last.before, last.caller, last.args.quiz_id)
    /\ Len(transfers[last.caller][last.args.quiz_id]) = 1

C6_RetriesBoundedNonIncreasing ==
    \A a \in Accounts, q \in QuizIds :
        /\ RetriesLeft(Self, a, q) \in 0 .. 3
        /\ RetriesLeft(Self, a, q) <= RetriesLeft(last.before, a, q)
        /\ q \notin DOMAIN quizzes => RetriesLeft(Self, a, q) = 3

\* An incorrect answer took the last retry of a pair: its counter went 1 -> 0.
C6_Witness ==
    /\ LastIsSubmit
    /\ last.panic = NoPanic
    /\ RetriesLeft(last.before, last.caller, last.args.quiz_id) = 1
    /\ RetriesLeft(Self, last.caller, last.args.quiz_id) = 0

\* The ids of the quiz table whose stored status is Published.
PublishedIds(self) ==
    {q \in DOMAIN self.quizzes : self.quizzes[q].status = "Published"}

\* C7: the published-id set is the set of the ids of the quiz table whose
\* status is Published, so get_published_quizzes returns the Published quizzes
\* and no other, and never panics with "Cannot load quiz".
C7_PublishedSetIsPublishedQuizzes ==
    /\ published_quiz_ids = PublishedIds(Self)
    /\ get_published_quizzes(Self).panic = NoPanic
    /\ {j.quiz_id : j \in get_published_quizzes(Self).ret} = PublishedIds(Self)
    /\ last.op = "get_published_quizzes"
          => /\ last.panic = NoPanic
             /\ {j.quiz_id : j \in last.ret} = PublishedIds(Self)
             /\ \A j \in last.ret :
                   /\ j.question = quizzes[j.quiz_id].question
                   /\ ParseU128(j.prize_amount) = <<quizzes[j.quiz_id].max_prize_amount>>

\* get_published_quizzes returned one quiz, published after its creation,
\* while another quiz of the table is unpublished.
C7_Witness ==
    /\ last.op = "get_published_quizzes"
    /\ Cardinality(last.ret) = 1
    /\ Cardinality(DOMAIN quizzes) = 2
    /\ \E j \in last.ret : j.quiz_id = 1

\* C8: publish_quiz by the owner on a quiz that is already Published returns
\* without panicking and leaves the quiz table, the published-id set and the
\* rest of the state unchanged; publishing any quiz of the table twice in a
\* row leaves the state the first call left.
C8_PublishIdempotent ==
    /\ (/\ last.op = "publish_quiz"
        /\ last.caller = last.before.owner_id
        /\ last.args.quiz_id \in PublishedIds(last.before))
          => (last.panic = NoPanic /\ StateUnchanged)
    /\ \A q \in DOMAIN quizzes :
          LET once  == publish_quiz(Self, owner_id, q)
              twice == publish_quiz(once.self, owner_id, q)
          IN  /\ once.panic = NoPanic
              /\ twice.panic = NoPanic
              /\ twice.self = once.self

\* The owner published a quiz that publish_quiz had published before.
C8_Witness ==
    /\ last.op = "publish_quiz"
    /\ last.caller = owner_id
    /\ last.args.quiz_id \in PublishedIds(last.before)
    /\ last.panic = NoPanic
    /\ \E a \in Accounts : RetriesLeft(Self, a, last.args.quiz_id) < 3

\* C9: a create_quiz or publish_quiz call whose caller is not the owner panics
\* with "This method can only be called by owner", also when the quiz id given
\* to publish_quiz is not in the quiz table, and leaves the quiz table, the
\* published-id set, the id counter and the ledgers unchanged.
C9_NonOwnerRejected ==
    (/\ last.op \in {"create_quiz", "publish_quiz"}
     /\ last.caller # last.before.owner_id)
        => /\ last.panic = PanicNotOwner
           /\ StateUnchanged
           /\ NoTransfer

\* An account that is not the owner called publish_quiz with an id that is not
\* in the quiz table, after a quiz had been created.
C9_Witness ==
    /\ last.op = "publish_quiz"
    /\ last.caller # owner_id
    /\ last.args.quiz_id \notin DOMAIN quizzes
    /\ quizzes # EmptyMap
    /\ last.panic = PanicNotOwner

\* C10: submit_answer on an id that is not in the quiz table panics with "No
\* such quiz found" and on a quiz whose status is Unpublished with "Cannot
\* submit an answer to unpublished quiz"; either way the state is unchanged and
\* no transfer is scheduled, so no account has solved, or used a retry of, a
\* quiz that is not Published.
C10_UnpublishedRejected ==
    /\ (LastIsSubmit /\ last.args.quiz_id \notin DOMAIN last.before.quizzes)
          => (last.panic = PanicNoSuchQuiz /\ StateUnchanged /\ NoTransfer)
    /\ (/\ LastIsSubmit
        /\ last.args.quiz_id \in DOMAIN last.before.quizzes
        /\ last.before.quizzes[last.args.quiz_id].status = "Unpublished")
          => (last.panic = PanicUnpublished /\ StateUnchanged /\ NoTransfer)
    /\ \A a \in Accounts, q \in QuizIds :
          q \notin PublishedIds(Self)
              => (~HasSolved(Self, a, q) /\ RetriesLeft(Self, a, q) = 3)

\* The correct answer was submitted to an unpublished quiz and was rejected.
C10_Witness ==
    /\ LastIsSubmit
    /\ LastAnswerCorrect
    /\ last.before.quizzes[last.args.quiz_id].status = "Unpublished"
    /\ last.panic = PanicUnpublished

\* The methods that change the contract.
ChangeMethods == {"submit_answer", "create_quiz", "publish_quiz"}

\* The handler of the last call, applied again to the contract before the call,
\* wrote to the contract before it ended.
LastHandlerWrote ==
    /\ LastIsSubmit
    /\ \E balance_covers \in BOOLEAN :
          LET r == submit_answer(last.before, last.caller, last.args.quiz_id, last.args.answer, balance_covers)
          IN  r.panic = last.panic /\ r.self # last.before

C12_StatusAtCreationAndQuery ==
    /\ (last.op = "create_quiz" /\ last.panic = NoPanic)
          => LET quiz_id == last.ret[1]
                 status  == IF last.args.publish THEN "Published" ELSE "Unpublished"
             IN  /\ quiz_id \in DOMAIN quizzes
                 /\ quizzes[quiz_id].status = status
                 /\ quiz_id \in published_quiz_ids <=> last.args.publish
                 /\ get_quiz_status(Self, quiz_id).ret = <<status>>
    /\ last.op = "get_quiz_status"
          => /\ last.panic = NoPanic
             /\ StateUnchanged
             /\ NoTransfer
             /\ last.ret = IF last.args.quiz_id \in DOMAIN last.before.quizzes
                           THEN <<last.before.quizzes[last.args.quiz_id].status>>
                           ELSE <<>>
    /\ \A q \in QuizIds :
          /\ get_quiz_status(Self, q).panic = NoPanic
          /\ q \notin DOMAIN quizzes => get_quiz_status(Self, q).ret = <<>>

\* get_quiz_status returned None for an id that create_quiz has not returned,
\* while the quiz created before, with publish = false, is Unpublished and not
\* in the published-id set.
C12_Witness ==
    /\ last.op = "get_quiz_status"
    /\ last.args.quiz_id = 1
    /\ last.ret = <<>>
    /\ last.panic = NoPanic
    /\ DOMAIN quizzes = {0}
    /\ quizzes[0].status = "Unpublished"
    /\ 0 \notin published_quiz_ids

\* C13: every record of the quiz table before a call is in the table after it
\* with the same question, correct hash and max prize amount, whatever the call
\* (publish_quiz, which stores the record again, included), and with the same
\* status unless the call changed it from Unpublished to Published: no record
\* is deleted and no Published quiz becomes Unpublished.
C13_QuizRecordsStable ==
    \A q \in DOMAIN last.before.quizzes :
        /\ q \in DOMAIN quizzes
        /\ quizzes[q].question = last.before.quizzes[q].question
        /\ quizzes[q].correct_hash = last.before.quizzes[q].correct_hash
        /\ quizzes[q].max_prize_amount = last.before.quizzes[q].max_prize_amount
        /\ \/ quizzes[q].status = last.before.quizzes[q].status
           \/ /\ last.before.quizzes[q].status = "Unpublished"
              /\ quizzes[q].status = "Published"
              /\ last.op = "publish_quiz"
              /\ last.args.quiz_id = q
        /\ last.before.quizzes[q].status = "Published" => quizzes[q].status = "Published"

\* publish_quiz stored the record of an Unpublished quiz as Published, its
\* other fields as they were, while the table holds another quiz.
C13_Witness ==
    /\ last.op = "publish_quiz"
    /\ last.panic = NoPanic
    /\ last.before.quizzes[last.args.quiz_id].status = "Unpublished"
    /\ quizzes[last.args.quiz_id] = [last.before.quizzes[last.args.quiz_id] EXCEPT !.status = "Published"]
    /\ Cardinality(DOMAIN quizzes) = 2

\* C14: the ids of the quiz table are 0 .. current_quiz_id - 1; a create_quiz
\* that returns, returns the counter of before the call, which was no id of the
\* table, adds that one id to the table and raises the counter by one; every
\* other call, a create_quiz that panics included, leaves the counter as it
\* was: the ids returned are 0, 1, 2, ... in the order of creation. So no call
\* panics with "Quiz with the same quiz_id already exists"; the handler applied
\* to the contract a publish_quiz or create_quiz has returned from, with the
\* counter set back to an id q of the table, panics with it, returns no id, and
\* the record of q the host stores is the one of before the call.
C14_FreshIds ==
    /\ DOMAIN quizzes = 0 .. (current_quiz_id - 1)
    /\ (last.op = "create_quiz" /\ last.panic = NoPanic)
          => /\ last.ret = <<last.before.current_quiz_id>>
             /\ last.ret[1] \notin DOMAIN last.before.quizzes
             /\ DOMAIN quizzes = DOMAIN last.before.quizzes \cup {last.ret[1]}
             /\ current_quiz_id = last.before.current_quiz_id + 1
    /\ ~(last.op = "create_quiz" /\ last.panic = NoPanic)
          => /\ current_quiz_id = last.before.current_quiz_id
             /\ DOMAIN quizzes = DOMAIN last.before.quizzes
    /\ last.panic # PanicDuplicate
    /\ (last.op \in {"create_quiz", "publish_quiz"} /\ last.panic = NoPanic)
          => \A q \in DOMAIN quizzes, question \in Questions, correct_hash \in CorrectHashes, publish \in BOOLEAN :
                LET before == [Self EXCEPT !.current_quiz_id = q]
                    r      == create_quiz(before, owner_id, question, correct_hash, to_string(12), publish)
                IN  /\ r.panic = PanicDuplicate
                    /\ r.ret = <<>>
                    /\ Rollback(before, r).quizzes[q] = quizzes[q]
                    /\ Rollback(before, r).current_quiz_id = q

\* create_quiz returned 1, the table holding quiz 0, and the counter is 2.
C14_Witness ==
    /\ last.op = "create_quiz"
    /\ last.panic = NoPanic
    /\ last.ret = <<1>>
    /\ DOMAIN last.before.quizzes = {0}
    /\ DOMAIN quizzes = {0, 1}
    /\ current_quiz_id = 2

\* The last call was a submit_answer of an answer that does not hash to the
\* stored correct hash, and it returned: it took the branch of lines 110-122.
IncorrectAccepted ==
    /\ LastIsSubmit
    /\ last.panic = NoPanic
    /\ ~LastAnswerCorrect

\* The larger of two numbers.
Max(a, b) == IF a > b THEN a ELSE b

\* C15 as claimed: the step submit_answer performs on an incorrect answer sets
\* the stored counter of the pair to max(current, 3) - 1, current being the
\* retries left before the step (3 when no counter is stored), and never below
\* 0.
C15_DecrementFromMaxOfThree ==
    IncorrectAccepted
        => LET current == RetriesLeft(last.before, last.caller, last.args.quiz_id)
           IN  /\ last.caller \in DOMAIN retries_left
               /\ last.args.quiz_id \in DOMAIN retries_left[last.caller]
               /\ retries_left[last.caller][last.args.quiz_id] = Max(current, 3) - 1
               /\ retries_left[last.caller][last.args.quiz_id] >= 0

\* C15, amended: the step submit_answer performs on an incorrect answer stores,
\* for the pair, the counter current - 1, current being the retries left before
\* the step (3 when no counter is stored); the step is taken only with current
\* in 1 .. 3, so the stored counter is never below 0.
C15_DecrementByOne ==
    IncorrectAccepted
        => LET current == RetriesLeft(last.before, last.caller, last.args.quiz_id)
           IN  /\ current \in 1 .. 3
               /\ last.caller \in DOMAIN retries_left
               /\ last.args.quiz_id \in DOMAIN retries_left[last.caller]
               /\ retries_left[last.caller][last.args.quiz_id] = current - 1
               /\ retries_left[last.caller][last.args.quiz_id] >= 0

\* An incorrect answer was accepted from a pair with 2 retries left: the stored
\* counter is 1, not max(2, 3) - 1 = 2.
C15_Witness ==
    /\ IncorrectAccepted
    /\ RetriesLeft(last.before, last.caller, last.args.quiz_id) = 2
    /\ retries_left[last.caller][last.args.quiz_id] = 1

\* The case of C16: an answer that does not hash to the stored correct hash,
\* submitted to a published quiz by an account that has not solved it and has
\* r retries left.
IncorrectSubmission(r) ==
    /\ LastIsSubmit
    /\ last.args.quiz_id \in DOMAIN last.before.quizzes
    /\ last.before.quizzes[last.args.quiz_id].status = "Published"
    /\ ~LastAnswerCorrect
    /\ ~HasSolved(last.before, last.caller, last.args.quiz_id)
    /\ RetriesLeft(last.before, last.caller, last.args.quiz_id) = r

\* C16: an incorrect answer to a published quiz by an account that has not
\* solved it and has r in {1,2,3} retries left returns: the counter stored for
\* the pair is r - 1, the quiz is not in the caller's solved set, no transfer
\* is scheduled, the solved sets are as before, and the message returned is
\* "The answer is not right. You have <r - 1> retries left", or "The answer is
\* not right, you are out of tries" when r - 1 = 0.
C16_IncorrectAnswerDecrements ==
    \A r \in 1 .. 3 :
        IncorrectSubmission(r)
            => /\ last.panic = NoPanic
               /\ last.caller \in DOMAIN retries_left
               /\ last.args.quiz_id \in DOMAIN retries_left[last.caller]
               /\ retries_left[last.caller][last.args.quiz_id] = r - 1
               /\ ~HasSolved(Self, last.caller, last.args.quiz_id)
               /\ solved_quizzes = last.before.solved_quizzes
               /\ NoTransfer
               /\ transfers[last.caller][last.args.quiz_id] = <<>>
               /\ last.ret = (IF r - 1 = 0
                              THEN <<"The answer is not right, you are out of tries">>
                              ELSE <<"The answer is not right. You have ", r - 1, " retries left">>)

\* The third incorrect answer of a pair was accepted: the counter went 1 -> 0
\* and the message reports that the caller is out of tries.
C16_Witness ==
    /\ IncorrectSubmission(1)
    /\ retries_left[last.caller][last.args.quiz_id] = 0
    /\ last.ret = <<"The answer is not right, you are out of tries">>

\* What map m stores under key k, <<v>> for a stored v and <<>> for none.
Stored(m, k) == IF k \in DOMAIN m THEN <<m[k]>> ELSE <<>>

\* C17: a submit_answer by account A, whether it returns or panics, leaves the
\* stored solved set and the stored retry map of every other account as they
\* were, and so the solved quizzes and the retries left of every other
\* account; it leaves the quiz table, the published-id set, the id counter and
\* the owner as they were; of A's own ledger it leaves the solved state and the
\* retries left of every quiz but the submitted one as they were; and every
\* transfer it schedules is to A.
C17_SubmitFrame ==
    LastIsSubmit
        => /\ quizzes = last.before.quizzes
           /\ published_quiz_ids = last.before.published_quiz_ids
           /\ current_quiz_id = last.before.current_quiz_id
           /\ owner_id = last.before.owner_id
           /\ \A b \in Accounts \ {last.caller} :
                 /\ Stored(solved_quizzes, b) = Stored(last.before.solved_quizzes, b)
                 /\ Stored(retries_left, b) = Stored(last.before.retries_left, b)
                 /\ \A q \in QuizIds :
                       /\ HasSolved(Self, b, q) = HasSolved(last.before, b, q)
                       /\ RetriesLeft(Self, b, q) = RetriesLeft(last.before, b, q)
           /\ \A q \in QuizIds \ {last.args.quiz_id} :
                 /\ HasSolved(Self, last.caller, q) = HasSolved(last.before, last.caller, q)
                 /\ RetriesLeft(Self, last.caller, q) = RetriesLeft(last.before, last.caller, q)
           /\ \A i \in 1 .. Len(last.promises) : last.promises[i].receiver_id = last.caller

\* A submit_answer of one account changed its own ledger for a quiz on which
\* another account had used a retry or which it had solved.
C17_Witness ==
    /\ LastIsSubmit
    /\ last.panic = NoPanic
    /\ ~StateUnchanged
    /\ \E b \in Accounts \ {last.caller} :
          \/ HasSolved(Self, b, last.args.quiz_id)
          \/ RetriesLeft(Self, b, last.args.quiz_id) < 3

\* The submit_answer calls of a pair that returned, as the ledger shows them:
\* the retries used and, if the quiz is solved, the call that solved it. It is
\* 0 after construction, and C18 has every call that returns raise it by one
\* and no other call change it.
AcceptedFor(self, a, q) ==
    (DefaultRetries - RetriesLeft(self, a, q)) + (IF HasSolved(self, a, q) THEN 1 ELSE 0)

\* A pair that is Solved, or Exhausted with no retries left.
Absorbing(self, a, q) ==
    HasSolved(self, a, q) \/ RetriesLeft(self, a, q) = 0

\* C18: for every account and quiz at most 3 submit_answer calls return. A call
\* that returns either puts the quiz into the caller's solved set, the retries
\* left as they were, or lowers the retries left of the pair by exactly 1, the
\* quiz unsolved; it raises the pair's count of accepted calls by one, and
\* nothing else changes that count. A pair with 3 accepted calls is Solved or
\* Exhausted; a Solved or Exhausted pair stays as it is, and every later
\* submit_answer for it, whatever the answer, panics and changes nothing.
C18_BoundedProgress ==
    /\ \A a \in Accounts, q \in QuizIds :
          /\ AcceptedFor(Self, a, q) \in 0 .. 3
          /\ AcceptedFor(Self, a, q) =
                AcceptedFor(last.before, a, q)
                + (IF /\ LastIsSubmit
                      /\ last.panic = NoPanic
                      /\ last.caller = a
                      /\ last.args.quiz_id = q
                   THEN 1 ELSE 0)
          /\ AcceptedFor(Self, a, q) = 3 => Absorbing(Self, a, q)
          /\ Absorbing(last.before, a, q)
                => /\ HasSolved(Self, a, q) = HasSolved(last.before, a, q)
                   /\ RetriesLeft(Self, a, q) = RetriesLeft(last.before, a, q)
          /\ (LastIsSubmit /\ last.caller = a /\ last.args.quiz_id = q /\ Absorbing(Self, a, q))
                => \A answer \in Answers, balance_covers \in BOOLEAN :
                      submit_answer(Self, a, q, answer, balance_covers).panic
                          \in {PanicAlreadySolved, PanicOutOfTries}
    /\ (LastIsSubmit /\ last.panic = NoPanic)
          => LET a == last.caller
                 q == last.args.quiz_id
             IN  \/ /\ ~HasSolved(last.before, a, q)
                    /\ HasSolved(Self, a, q)
                    /\ RetriesLeft(Self, a, q) = RetriesLeft(last.before, a, q)
                 \/ /\ ~HasSolved(last.before, a, q)
                    /\ ~HasSolved(Self, a, q)
                    /\ RetriesLeft(Self, a, q) = RetriesLeft(last.before, a, q) - 1
    /\ (LastIsSubmit /\ Absorbing(last.before, last.caller, last.args.quiz_id))
          => /\ last.panic \in {PanicAlreadySolved, PanicOutOfTries}
             /\ StateUnchanged
             /\ NoTransfer

\* A pair whose third accepted submission solved the quiz, after two incorrect
\* answers, submitted once more and was rejected.
C18_Witness ==
    /\ LastIsSubmit
    /\ last.panic # NoPanic
    /\ AcceptedFor(last.before, last.caller, last.args.quiz_id) = 3
    /\ HasSolved(last.before, last.caller, last.args.quiz_id)
    /\ RetriesLeft(last.before, last.caller, last.args.quiz_id) = 1

\* C19: no pair is both Solved and Exhausted: a quiz in an account's solved set
\* has, for that account, retries left in {1,2,3}; and a submit_answer of the
\* correct answer that returns leaves the stored retry maps, and so the retries
\* left of the pair, as they were before the call.
C19_SolvedExcludesExhausted ==
    /\ \A a \in Accounts, q \in QuizIds :
          HasSolved(Self, a, q) => RetriesLeft(Self, a, q) \in 1 .. 3
    /\ (LastIsSubmit /\ LastAnswerCorrect /\ last.panic = NoPanic)
          => /\ retries_left = last.before.retries_left
             /\ RetriesLeft(Self, last.caller, last.args.quiz_id)
                   = RetriesLeft(last.before, last.caller, last.args.quiz_id)

\* The correct answer was accepted from a pair with one retry left: the quiz is
\* solved and the pair still has one retry left.
C19_Witness ==
    /\ LastIsSubmit
    /\ LastAnswerCorrect
    /\ last.panic = NoPanic
    /\ RetriesLeft(last.before, last.caller, last.args.quiz_id) = 1
    /\ HasSolved(Self, last.caller, last.args.quiz_id)
    /\ RetriesLeft(Self, last.caller, last.args.quiz_id) = 1

\* The contract reduced to what C20 names for account a and quiz q: the record
\* of q, whether a has solved q and the retries a has left for q. The other
\* quizzes, the published-id set, the counter and the ledger of every other
\* account and of a on every other quiz are erased.
OwnState(self, a, q) ==
    [owner_id           |-> a,
     quizzes            |-> IF q \in DOMAIN self.quizzes
                            THEN [k \in {q} |-> self.quizzes[q]]
                            ELSE EmptyMap,
     published_quiz_ids |-> EmptySet,
     solved_quizzes     |-> IF HasSolved(self, a, q)
                            THEN [k \in {a} |-> {q}]
                            ELSE EmptyMap,
     retries_left       |-> IF RetriesLeft(self, a, q) # DefaultRetries
                            THEN [k \in {a} |-> [j \in {q} |-> RetriesLeft(self, a, q)]]
                            ELSE EmptyMap,
     current_quiz_id    |-> 0]

\* The outcome of submit_answer(q, answer) by a on the contract self, the host
\* accepting the transfer or not (balance_covers): the panic or the message,
\* the transfer scheduled, and the solved state and retries left of the pair in
\* the contract the host stores.
Outcome(self, a, q, answer, balance_covers) ==
    LET r == submit_answer(self, a, q, answer, balance_covers)
    IN  [panic    |-> r.panic,
         ret      |-> r.ret,
         promises |-> Scheduled(r),
         solved   |-> HasSolved(Rollback(self, r), a, q),
         retries  |-> RetriesLeft(Rollback(self, r), a, q)]

\* C20: the outcome of every submit_answer(q, answer) called by an account a
\* (the panic, the message, the amount transferred, the solved state and
\* retries left of the pair afterwards) is the outcome of the same call, with
\* the same answer of the host to the transfer, on the contract reduced to q's
\* record and a's own solved state and retries for q; so it is the same on any
\* two contracts that agree on those, whichever other accounts have solved q
\* and whatever a's ledger holds for other quizzes. A correct answer with r
\* retries left is paid floor(max_prize_amount / (4 - r)) however many accounts
\* were paid for the quiz before.
C20_OutcomeOwnStateOnly ==
    /\ LastIsSubmit
          => \E balance_covers \in BOOLEAN :
                LET o == Outcome(OwnState(last.before, last.caller, last.args.quiz_id), last.caller, last.args.quiz_id, last.args.answer, balance_covers)
                IN  /\ balance_covers = (last.panic # PanicBalanceExceeded)
                    /\ o.panic = last.panic
                    /\ o.ret = last.ret
                    /\ o.promises = last.promises
                    /\ o.solved = HasSolved(Self, last.caller, last.args.quiz_id)
                    /\ o.retries = RetriesLeft(Self, last.caller, last.args.quiz_id)
    /\ (LastIsSubmit /\ LastAnswerCorrect /\ last.panic = NoPanic)
          => LET max == last.before.quizzes[last.args.quiz_id].max_prize_amount
                 r   == RetriesLeft(last.before, last.caller, last.args.quiz_id)
             IN  last.promises = <<[receiver_id |-> last.caller, amount |-> max \div (4 - r)]>>

\* An account that had used a retry on another quiz solved, at its first
\* answer, a quiz that another account had solved and been paid for: it is
\* paid the whole prize.
C20_Witness ==
    /\ LastIsSubmit
    /\ LastAnswerCorrect
    /\ last.panic = NoPanic
    /\ \E b \in Accounts \ {last.caller} :
          /\ HasSolved(last.before, b, last.args.quiz_id)
          /\ Len(transfers[b][last.args.quiz_id]) = 1
    /\ \E q \in QuizIds \ {last.args.quiz_id} : RetriesLeft(last.before, last.caller, q) < 3
    /\ RetriesLeft(last.before, last.caller, last.args.quiz_id) = 3
    /\ last.promises = <<[receiver_id |-> last.caller, amount |-> last.before.quizzes[last.args.quiz_id].max_prize_amount]>>

====
